---- MODULE Spec2Model ----
(***************************************************************************)
(* Model of flask_rest_jsonapi/querystring.py: QueryStringManager.         *)
(*                                                                         *)
(* A Python str is a sequence of one-character strings, so that            *)
(* startswith, index, split and slicing are computed the way the code      *)
(* computes them.  The only lexemes longer than one character are the two  *)
(* nulls directives of the sort grammar, "[nullsfirst]" and "[nullslast]", *)
(* which stand for the twelve / eleven characters they spell.              *)
(* A Python dict is a sequence of entries in insertion order.              *)
(* An optional configuration value is <<>> (None) or <<v>>.                *)
(***************************************************************************)
EXTENDS Integers, Sequences, FiniteSets, TLC

VARIABLES qs, config, last, first, calls

vars == <<qs, config, last, first, calls>>

(***************************************************************************)
(* Bounds of the explored inputs.                                          *)
(***************************************************************************)
MaxIncludeLen == 5
MaxIncludeDepth == 3
MaxSortLen == 4
MaxPageValLen == 2
MaxPageSize == 2
MaxFilterLen == 5
MaxParams == 2
MaxCalls == 2

(***************************************************************************)
(* str primitives.                                                         *)
(***************************************************************************)
Strs(alphabet, n) == UNION {[1..k -> alphabet] : k \in 0..n}

\* str.startswith(prefix)
startswith(s, p) == Len(s) >= Len(p) /\ SubSeq(s, 1, Len(p)) = p

\* c in s, for a one-character c
contains(s, c) == \E i \in 1..Len(s) : s[i] = c

\* str.index(c), 1-based; 0 stands for the ValueError of a missing c
index(s, c) ==
    IF contains(s, c) THEN CHOOSE i \in 1..Len(s) : s[i] = c /\ \A j \in 1..(i-1) : s[j] # c
    ELSE 0

\* str.split(sep) for a one-character sep: always at least one part
RECURSIVE split(_, _)
split(s, sep) ==
    IF ~contains(s, sep) THEN <<s>>
    ELSE LET i == index(s, sep)
         IN  <<SubSeq(s, 1, i - 1)>> \o split(SubSeq(s, i + 1, Len(s)), sep)

\* str.strip(c) for a one-character c
RECURSIVE strip(_, _)
strip(s, c) ==
    IF s = <<>> THEN s
    ELSE IF s[1] = c THEN strip(Tail(s), c)
    ELSE IF s[Len(s)] = c THEN strip(SubSeq(s, 1, Len(s) - 1), c)
    ELSE s

(***************************************************************************)
(* The raw parameter mapping self.qs: entries [key, value] in insertion    *)
(* order, keys distinct.                                                   *)
(***************************************************************************)
has_key(q, k) == \E i \in 1..Len(q) : q[i].key = k

\* self.qs[k] for a present key
qs_item(q, k) == q[CHOOSE i \in 1..Len(q) : q[i].key = k].value

keys_of(q) == {q[i].key : i \in 1..Len(q)}

\* Outcomes of an accessor: a returned value or a raised error.
Ok(v) == [ok |-> v]
Err(kind, source) == [err |-> kind, source |-> source]
IsOk(o) == "ok" \in DOMAIN o
IsErr(o) == "err" \in DOMAIN o

K_filter == <<"f","i","l","t","e","r">>
K_page == <<"p","a","g","e">>
K_fields == <<"f","i","e","l","d","s">>
K_sort == <<"s","o","r","t">>
K_include == <<"i","n","c","l","u","d","e">>
K_q == <<"q">>

MANAGED_KEYS == <<K_filter, K_page, K_fields, K_sort, K_include, K_q>>

(***************************************************************************)
(* include                                                                 *)
(***************************************************************************)
\* The loop of lines 224-227: `for include_path in include_param` walks the
\* characters of the str, and each one-character str is split on '.'.
include_too_deep(include_param, depth) ==
    \E i \in 1..Len(include_param) :
        Len(split(<<include_param[i]>>, ".")) > depth

include(q, cfg) ==
    IF ~has_key(q, K_include) THEN Ok(<<>>)
    ELSE LET include_param == qs_item(q, K_include)
         IN  IF cfg.MAX_INCLUDE_DEPTH # <<>>
                /\ include_too_deep(include_param, cfg.MAX_INCLUDE_DEPTH[1])
             THEN Err("InvalidInclude", <<>>)
             ELSE IF include_param # <<>> THEN Ok(split(include_param, ","))
             ELSE Ok(<<>>)

(***************************************************************************)
(* State machine: one parser instance, accessors called in any order.      *)
(***************************************************************************)
Accessors == {"querystring", "filters", "pagination", "fields", "sorting", "include"}

NotCalled == [called |-> FALSE]

\* Bookkeeping of a call: the outcome, and the outcome of the accessor's
\* first call on this instance.
Record(acc, out) ==
    /\ calls < MaxCalls
    /\ calls' = calls + 1
    /\ last' = [acc |-> acc, out |-> out]
    /\ first' = IF first[acc] = NotCalled THEN [first EXCEPT ![acc] = out] ELSE first

Include ==
    /\ Record("include", include(qs, config))
    /\ UNCHANGED <<qs, config>>

Configs(sizes, depths) ==
    [ALLOW_DISABLE_PAGINATION : BOOLEAN,
     MAX_PAGE_SIZE : {<<>>} \cup {<<n>> : n \in sizes},
     MAX_INCLUDE_DEPTH : {<<>>} \cup {<<n>> : n \in depths}]

InitRest ==
    /\ last = [acc |-> "none", out |-> NotCalled]
    /\ first = [a \in Accessors |-> NotCalled]
    /\ calls = 0

IncludeAlphabet == {"a", ".", ","}

InitInclude ==
    /\ qs \in {<<>>} \cup {<<[key |-> K_include, value |-> s]>> : s \in Strs(IncludeAlphabet, MaxIncludeLen)}
    /\ config \in Configs({}, 1..MaxIncludeDepth)
    /\ config.ALLOW_DISABLE_PAGINATION
    /\ InitRest

SpecInclude == InitInclude /\ [][Include]_vars

\* Number of '.'-separated segments of the longest path of an include value.
PathTooDeep(value, depth) ==
    \E i \in 1..Len(split(value, ",")) : Len(split(split(value, ",")[i], ".")) > depth

\* C1: with MAX_INCLUDE_DEPTH = N >= 1, include fails with InvalidInclude
\* exactly for the parameters holding a comma-separated path of more than N
\* '.'-separated segments, and otherwise returns the paths in order.
C1_IncludeDepth ==
    (last.acc = "include" /\ has_key(qs, K_include) /\ config.MAX_INCLUDE_DEPTH # <<>>)
        => LET value == qs_item(qs, K_include)
           IN  IF PathTooDeep(value, config.MAX_INCLUDE_DEPTH[1])
               THEN last.out = Err("InvalidInclude", <<>>)
               ELSE last.out = Ok(IF value = <<>> THEN <<>> ELSE split(value, ","))

(***************************************************************************)
(* Schema introspection (flask_rest_jsonapi.schema and the marshmallow     *)
(* schemas), as described in section 6 of the specification: declared      *)
(* fields, which of them are relationships, their cardinality, the related *)
(* schema and the model-level field of a schema field.                     *)
(*   Root : n attribute, r to-one -> Child, m to-many -> Child             *)
(*   Child: n attribute, m attribute, r to-one -> Root                     *)
(***************************************************************************)
Schemas == {"Root", "Child"}

declared_fields(sch) ==
    IF sch = "Root" THEN {<<"n">>, <<"r">>, <<"m">>} ELSE {<<"n">>, <<"m">>, <<"r">>}

get_relationships(sch) ==
    IF sch = "Root" THEN {<<"r">>, <<"m">>} ELSE {<<"r">>}

relationship_many(sch, field) == sch = "Root" /\ field = <<"m">>

get_related_schema(sch, field) == IF sch = "Root" THEN "Child" ELSE "Root"

get_model_field(sch, field) ==
    IF sch = "Root"
    THEN (IF field = <<"n">> THEN "root.name"
          ELSE IF field = <<"r">> THEN "root.child" ELSE "root.children")
    ELSE (IF field = <<"n">> THEN "child.name"
          ELSE IF field = <<"m">> THEN "child.mass" ELSE "child.parent")

\* get_schema_from_type: the schema registered for a resource type, or none
get_schema_from_type(type) == IF type = <<"u">> THEN <<"Root">> ELSE <<>>

(***************************************************************************)
(* sorting                                                                 *)
(***************************************************************************)
WordChars == {"n", "r", "m"}
NullsTokens == {"[nullsfirst]", "[nullslast]"}

\* Last position of the run of \w characters starting at p (p - 1: no run).
RECURSIVE word_end(_, _)
word_end(s, p) ==
    IF p <= Len(s) /\ s[p] \in WordChars THEN word_end(s, p + 1) ELSE p - 1

\* ((?:\w+\.)*)(\w+) from position p, greedy with backtracking: a "word."
\* group is taken while a word character follows its dot; the start of the
\* final \w+ is returned.
RECURSIVE field_start(_, _)
field_start(s, p) ==
    LET e == word_end(s, p)
    IN  IF e + 2 <= Len(s) /\ s[e + 1] = "." /\ s[e + 2] \in WordChars
        THEN field_start(s, e + 2)
        ELSE p

\* pattern.match(sort_field): anchored at the start only.  No match is
\* [matched |-> FALSE]; a match gives the four groups.
pattern_match(s) ==
    LET p1 == IF Len(s) >= 1 /\ s[1] = "-" THEN 2 ELSE 1
        p2 == IF p1 <= Len(s) /\ s[p1] \in NullsTokens THEN p1 + 1 ELSE p1
    IN  IF ~(p2 <= Len(s) /\ s[p2] \in WordChars) THEN [matched |-> FALSE]
        ELSE LET f == field_start(s, p2)
             IN  [matched |-> TRUE,
                  minus |-> SubSeq(s, 1, p1 - 1),
                  nulls |-> IF p2 = p1 THEN "None"
                            ELSE IF s[p1] = "[nullsfirst]" THEN "nullsfirst" ELSE "nullslast",
                  join_path |-> SubSeq(s, p2, f - 1),
                  schema_field |-> SubSeq(s, f, word_end(s, f))]

\* Variant: the walk does not reject to-many relationships.
RECURSIVE resolve_joins_any_cardinality(_, _, _)
resolve_joins_any_cardinality(cur_sch, schema_joins, model_joins) ==
    IF schema_joins = <<>> THEN [sch |-> cur_sch, joins |-> model_joins]
    ELSE LET join == Head(schema_joins)
         IN  IF join \notin get_relationships(cur_sch) THEN [invalid |-> "no relationship"]
             ELSE resolve_joins_any_cardinality(get_related_schema(cur_sch, join), Tail(schema_joins),
                                                Append(model_joins, get_model_field(cur_sch, join)))

\* Lines 194-203: walk the joins from cur_sch; the walk stops at the first
\* join that is not a relationship or is to-many.
RECURSIVE resolve_joins(_, _, _)
resolve_joins(cur_sch, schema_joins, model_joins) ==
    IF schema_joins = <<>> THEN [sch |-> cur_sch, joins |-> model_joins]
    ELSE LET join == Head(schema_joins)
         IN  IF join \notin get_relationships(cur_sch) THEN [invalid |-> "no relationship"]
             ELSE IF relationship_many(cur_sch, join) THEN [invalid |-> "many"]
             ELSE resolve_joins(get_related_schema(cur_sch, join), Tail(schema_joins),
                                Append(model_joins, get_model_field(cur_sch, join)))

\* Lines 186-211: one sort_field to its directive, or [invalid |-> ...].
sort_one(sch, sort_field) ==
    LET match == pattern_match(sort_field)
    IN  IF ~match.matched THEN [invalid |-> "format"]
        ELSE LET order == IF match.minus # <<>> THEN "desc" ELSE "asc"
                 schema_joins == IF match.join_path # <<>>
                                 THEN split(strip(match.join_path, "."), ".")
                                 ELSE <<>>
                 walk == resolve_joins(sch, schema_joins, <<>>)
             IN  IF "invalid" \in DOMAIN walk THEN walk
                 ELSE IF match.schema_field \notin declared_fields(walk.sch)
                      THEN [invalid |-> "no attribute"]
                 ELSE IF match.schema_field \in get_relationships(walk.sch)
                      THEN [invalid |-> "relationship field"]
                 ELSE [field |-> get_model_field(walk.sch, match.schema_field),
                       order |-> order, nulls |-> match.nulls, joins |-> walk.joins]

RECURSIVE sort_all(_, _, _)
sort_all(sch, sort_fields, sorting_results) ==
    IF sort_fields = <<>> THEN Ok(sorting_results)
    ELSE LET d == sort_one(sch, Head(sort_fields))
         IN  IF "invalid" \in DOMAIN d THEN Err("InvalidSort", <<>>)
             ELSE sort_all(sch, Tail(sort_fields), Append(sorting_results, d))

\* self.schema, set at construction
schema == "Root"

sorting(q, sch) ==
    IF ~has_key(q, K_sort) \/ qs_item(q, K_sort) = <<>> THEN Ok(<<>>)
    ELSE sort_all(sch, split(qs_item(q, K_sort), ","), <<>>)

Sorting ==
    /\ Record("sorting", sorting(qs, schema))
    /\ UNCHANGED <<qs, config>>

SortAlphabet == {"-", "[nullsfirst]", "[nullslast]", "n", "r", "m", ".", ",", "!"}

NoConfig == [ALLOW_DISABLE_PAGINATION |-> TRUE, MAX_PAGE_SIZE |-> <<>>, MAX_INCLUDE_DEPTH |-> <<>>]

InitSort ==
    /\ qs \in {<<>>} \cup {<<[key |-> K_sort, value |-> s]>> : s \in Strs(SortAlphabet, MaxSortLen)}
    /\ config = NoConfig
    /\ InitRest

SpecSort == InitSort /\ [][Sorting]_vars

SortCalled == last.acc = "sorting" /\ has_key(qs, K_sort) /\ qs_item(qs, K_sort) # <<>>

SortSegments == split(qs_item(qs, K_sort), ",")

IsWord(w) == w # <<>> /\ \A i \in 1..Len(w) : w[i] \in WordChars

\* The sort grammar, applied to the whole segment: optional '-', optional
\* nulls directive, then words separated by single dots.
WhollyGrammatical(seg) ==
    LET a == IF seg # <<>> /\ seg[1] = "-" THEN Tail(seg) ELSE seg
        b == IF a # <<>> /\ a[1] \in NullsTokens THEN Tail(a) ELSE a
    IN  \A i \in 1..Len(split(b, ".")) : IsWord(split(b, ".")[i])

\* C3: a non-empty sort parameter holding a segment that is not wholly of
\* the sort grammar makes sorting fail with InvalidSort.
C3_MalformedSegmentFails ==
    (SortCalled /\ \E i \in 1..Len(SortSegments) : ~WhollyGrammatical(SortSegments[i]))
        => last.out = Err("InvalidSort", <<>>)

\* The dotted path the code reads in a segment: the joins, then the field.
PathOf(seg) ==
    LET m == pattern_match(seg)
    IN  IF m.join_path = <<>> THEN <<m.schema_field>>
        ELSE Append(split(strip(m.join_path, "."), "."), m.schema_field)

\* A path is sortable from sch: every component but the last is a to-one
\* relationship of the schema reached so far, and the last is a declared
\* field of the schema reached that is no relationship.
RECURSIVE GoodPath(_, _)
GoodPath(sch, path) ==
    IF Len(path) = 1
    THEN Head(path) \in declared_fields(sch) \ get_relationships(sch)
    ELSE /\ Head(path) \in get_relationships(sch)
         /\ ~relationship_many(sch, Head(path))
         /\ GoodPath(get_related_schema(sch, Head(path)), Tail(path))

\* Schemas reached from sch by joins that each come from a to-one
\* relationship declared on the schema reached so far.
RECURSIVE Reach(_, _)
Reach(sch, joins) ==
    IF joins = <<>> THEN {sch}
    ELSE UNION {Reach(get_related_schema(sch, r), Tail(joins)) :
                  r \in {x \in get_relationships(sch) :
                           ~relationship_many(sch, x) /\ get_model_field(sch, x) = Head(joins)}}

ValidDirective(d) ==
    \E s \in Reach(schema, d.joins) :
        \E f \in declared_fields(s) \ get_relationships(s) : get_model_field(s, f) = d.field

\* Directive d is the one of segment seg: same order marker, same path.
DirectiveOf(d, seg) ==
    LET path == PathOf(seg)
    IN  /\ d.order = (IF seg[1] = "-" THEN "desc" ELSE "asc")
        /\ Len(d.joins) = Len(path) - 1
        /\ \A j \in 1..Len(d.joins) : \E s \in Schemas : d.joins[j] = get_model_field(s, path[j])
        /\ \E s \in Schemas : d.field = get_model_field(s, path[Len(path)])

Scalar(v) == [scalar |-> v]
List(v) == [list |-> v]
IsList(x) == "list" \in DOMAIN x

\* dict: entries [k, v] in insertion order
dict_has(d, k) == \E i \in 1..Len(d) : d[i].k = k
dict_get(d, k) == d[CHOOSE i \in 1..Len(d) : d[i].k = k].v
dict_keys(d) == {d[i].k : i \in 1..Len(d)}

\* Variant: an existing key keeps its value (setdefault instead of update).
dict_setdefault(d, k, v) ==
    IF dict_has(d, k) THEN d ELSE Append(d, [k |-> k, v |-> v])

\* results.update({item_key: item_value}): an existing key keeps its place
\* and takes the new value, a new key is appended.
dict_update(d, k, v) ==
    IF dict_has(d, k) THEN [i \in 1..Len(d) |-> IF d[i].k = k THEN [k |-> k, v |-> v] ELSE d[i]]
    ELSE Append(d, [k |-> k, v |-> v])

\* Lines 55-58
item_value_of(value) == IF contains(value, ",") THEN List(split(value, ",")) ELSE Scalar(value)

\* Variant: the startswith test is missing, every key is parsed.
RECURSIVE key_values_any_key(_, _, _, _)
key_values_any_key(q, name, i, results) ==
    IF i > Len(q) THEN Ok(results)
    ELSE LET key == q[i].key
             value == q[i].value
         IN  IF index(key, "[") = 0 \/ index(key, "]") = 0
             THEN Err("BadRequest", key)
             ELSE LET item_key == SubSeq(key, index(key, "[") + 1, index(key, "]") - 1)
                  IN  key_values_any_key(q, name, i + 1,
                                         dict_update(results, item_key, item_value_of(value)))

\* Lines 46-61, from entry i of the mapping with the results so far.
RECURSIVE key_values_from(_, _, _, _)
key_values_from(q, name, i, results) ==
    IF i > Len(q) THEN Ok(results)
    ELSE LET key == q[i].key
             value == q[i].value
         IN  IF ~startswith(key, name) THEN key_values_from(q, name, i + 1, results)
             ELSE IF index(key, "[") = 0 \/ index(key, "]") = 0
                  THEN Err("BadRequest", key)
             ELSE LET item_key == SubSeq(key, index(key, "[") + 1, index(key, "]") - 1)
                  IN  key_values_from(q, name, i + 1,
                                      dict_update(results, item_key, item_value_of(value)))

get_key_values(q, name) == key_values_from(q, name, 1, <<>>)

(***************************************************************************)
(* pagination                                                              *)
(***************************************************************************)
Digits == {"0", "1", "2"}
DigitVal(c) == IF c = "0" THEN 0 ELSE IF c = "1" THEN 1 ELSE 2

RECURSIVE digits_value(_)
digits_value(s) ==
    IF s = <<>> THEN 0 ELSE 10 * digits_value(SubSeq(s, 1, Len(s) - 1)) + DigitVal(s[Len(s)])

\* int(str): <<n>>, or <<>> for ValueError.  An optional sign, then digits.
parse_int(s) ==
    LET body == IF s # <<>> /\ s[1] \in {"-", "+"} THEN Tail(s) ELSE s
    IN  IF body = <<>> \/ \E i \in 1..Len(body) : body[i] \notin Digits THEN <<>>
        ELSE IF s[1] = "-" THEN <<0 - digits_value(body)>> ELSE <<digits_value(body)>>

K_number == <<"n","u","m","b","e","r">>
K_size == <<"s","i","z","e">>
Bracket(k) == <<"[">> \o k \o <<"]">>

\* Lines 116-122, from entry i of result: <<>> when every entry passes,
\* else the error raised.  int(list) raises TypeError, which is not caught.
RECURSIVE check_page_values(_, _)
check_page_values(result, i) ==
    IF i > Len(result) THEN <<>>
    ELSE LET key == result[i].k
             value == result[i].v
         IN  IF key \notin {K_number, K_size} THEN <<Err("BadRequest", K_page)>>
             ELSE IF IsList(value) THEN <<Err("TypeError", <<>>)>>
             ELSE IF parse_int(value.scalar) = <<>>
                  THEN <<Err("BadRequest", K_page \o Bracket(key))>>
             ELSE check_page_values(result, i + 1)

\* Variant: the default of an absent size is 0 instead of 1.
size_default_zero(result) ==
    IF dict_has(result, K_size) THEN parse_int(dict_get(result, K_size).scalar)[1] ELSE 0

\* int(result.get('size', 1))
size_or_one(result) ==
    IF dict_has(result, K_size) THEN parse_int(dict_get(result, K_size).scalar)[1] ELSE 1

pagination(q, cfg) ==
    LET got == get_key_values(q, K_page)
    IN  IF IsErr(got) THEN got
        ELSE LET result == got.ok
                 bad == check_page_values(result, 1)
             IN  IF bad # <<>> THEN bad[1]
                 ELSE IF cfg.ALLOW_DISABLE_PAGINATION = FALSE /\ size_or_one(result) = 0
                      THEN Err("BadRequest", K_page \o Bracket(K_size))
                 ELSE IF cfg.MAX_PAGE_SIZE # <<>> /\ dict_has(result, K_size)
                         /\ size_or_one(result) > cfg.MAX_PAGE_SIZE[1]
                      THEN Err("BadRequest", K_page \o Bracket(K_size))
                 ELSE Ok(result)

Pagination ==
    /\ Record("pagination", pagination(qs, config))
    /\ UNCHANGED <<qs, config>>

\* Every insertion order of every subset of the keys K.
KeyOrders(K) ==
    {o \in UNION {[1..k -> K] : k \in 0..Cardinality(K)} :
        \A i, j \in 1..Len(o) : i # j => o[i] # o[j]}

\* The mapping holding the keys of o in that order, key k with value val[k].
MappingOf(o, val) == [i \in 1..Len(o) |-> [key |-> o[i], value |-> val[o[i]]]]

PageAlphabet == {"0", "1", "2", "-", "x", ","}

P_size == K_page \o Bracket(K_size)
P_number == K_page \o Bracket(K_number)
P_x == K_page \o Bracket(<<"x">>)

InitPage ==
    /\ \E o \in KeyOrders({P_size, P_number, P_x}) :
       \E vs \in Strs(PageAlphabet, MaxPageValLen) :
       \E vn \in {<<"1">>, <<"x">>, <<"1", ",", "2">>} :
          qs = MappingOf(o, (P_size :> vs) @@ (P_number :> vn) @@ (P_x :> <<"1">>))
    /\ config \in Configs(0..MaxPageSize, {})
    /\ InitRest

SpecPage == InitPage /\ [][Pagination]_vars

PageCalled == last.acc = "pagination"

\* C4: pagination fails with BadRequest or returns a mapping with keys among
\* number and size whose values are strings parsing as integers; a value
\* that does not parse as an integer fails with BadRequest, nothing else.
C4_PaginationBadRequestOnly ==
    PageCalled =>
        \/ (IsErr(last.out) /\ last.out.err = "BadRequest")
        \/ /\ IsOk(last.out)
           /\ dict_keys(last.out.ok) \subseteq {K_number, K_size}
           /\ \A i \in 1..Len(last.out.ok) :
                 /\ ~IsList(last.out.ok[i].v)
                 /\ parse_int(last.out.ok[i].v.scalar) # <<>>

\* C5: a successful pagination never returns a size of 0 when
\* ALLOW_DISABLE_PAGINATION is False, nor a size above MAX_PAGE_SIZE when
\* that is configured; an absent size triggers neither rejection.
C5_PaginationPolicy ==
    PageCalled =>
        /\ (IsOk(last.out) /\ dict_has(last.out.ok, K_size)) =>
              LET size == parse_int(dict_get(last.out.ok, K_size).scalar)
              IN  /\ size # <<>>
                  /\ config.ALLOW_DISABLE_PAGINATION = FALSE => size[1] # 0
                  /\ config.MAX_PAGE_SIZE # <<>> => size[1] <= config.MAX_PAGE_SIZE[1]
        /\ (~has_key(qs, P_size) /\ IsErr(last.out)) =>
              last.out.source # P_size

C5_Witness ==
    /\ PageCalled
    /\ IsOk(last.out)
    /\ dict_has(last.out.ok, K_size)
    /\ config.ALLOW_DISABLE_PAGINATION = FALSE
    /\ config.MAX_PAGE_SIZE # <<>>

(***************************************************************************)
(* filters                                                                 *)
(*                                                                         *)
(* The text of the `filter` parameter is a sequence of JSON lexemes: the   *)
(* punctuation "[", "]", ",", the digit "1", and "{c1}", "{c2}", each      *)
(* standing for the text of one filter-condition object                    *)
(* {"name": .., "op": .., "val": ..}.                                      *)
(***************************************************************************)
JsonObjects == {"{c1}", "{c2}"}

\* json.loads: a recursive-descent parse of one value from position p;
\* [fail |-> TRUE] is the ValueError.  Decoded values: [dict |-> id],
\* [int |-> n], [items |-> <<...>>].
\* Last position of the run of digits starting at p.
RECURSIVE digits_end(_, _)
digits_end(t, p) == IF p + 1 <= Len(t) /\ t[p + 1] \in Digits THEN digits_end(t, p + 1) ELSE p

RECURSIVE json_value(_, _)
RECURSIVE json_items(_, _, _)
json_value(t, p) ==
    IF p > Len(t) THEN [fail |-> TRUE]
    ELSE IF t[p] \in JsonObjects THEN [val |-> [dict |-> t[p]], next |-> p + 1]
    ELSE IF t[p] = "0" /\ digits_end(t, p) > p THEN [fail |-> TRUE]
    ELSE IF t[p] \in Digits
         THEN [val |-> [int |-> digits_value(SubSeq(t, p, digits_end(t, p)))],
               next |-> digits_end(t, p) + 1]
    ELSE IF t[p] = "["
         THEN (IF p + 1 <= Len(t) /\ t[p + 1] = "]"
               THEN [val |-> [items |-> <<>>], next |-> p + 2]
               ELSE json_items(t, p + 1, <<>>))
    ELSE [fail |-> TRUE]

json_items(t, p, acc) ==
    LET v == json_value(t, p)
    IN  IF "fail" \in DOMAIN v THEN v
        ELSE IF v.next > Len(t) THEN [fail |-> TRUE]
        ELSE IF t[v.next] = "," THEN json_items(t, v.next + 1, Append(acc, v.val))
        ELSE IF t[v.next] = "]" THEN [val |-> [items |-> Append(acc, v.val)], next |-> v.next + 1]
        ELSE [fail |-> TRUE]

json_loads(t) ==
    LET v == json_value(t, 1)
    IN  IF "fail" \in DOMAIN v \/ v.next # Len(t) + 1 THEN [fail |-> TRUE] ELSE [val |-> v.val]

\* list.extend(x): the elements x yields when iterated, [fail |-> TRUE] for
\* the TypeError of a value that is not iterable.  Iterating a dict yields
\* its keys.
extend_with(x) ==
    IF "items" \in DOMAIN x THEN [elems |-> x.items]
    ELSE IF "dict" \in DOMAIN x THEN [elems |-> <<[str |-> "name"], [str |-> "op"], [str |-> "val"]>>]
    ELSE [fail |-> TRUE]

simple_filters(dict_) ==
    [i \in 1..Len(dict_) |-> [name |-> dict_[i].k, op |-> "eq", val |-> dict_[i].v]]

K_filter_bracket == K_filter \o <<"[">>

filters(q) ==
    LET decoded == IF has_key(q, K_filter) THEN json_loads(qs_item(q, K_filter)) ELSE [val |-> [items |-> <<>>]]
        extended == IF "fail" \in DOMAIN decoded THEN decoded ELSE extend_with(decoded.val)
        simple == get_key_values(q, K_filter_bracket)
    IN  IF "fail" \in DOMAIN extended THEN Err("InvalidFilters", <<>>)
        ELSE IF IsErr(simple) THEN simple
        ELSE IF simple.ok # <<>> THEN Ok(extended.elems \o simple_filters(simple.ok))
        ELSE Ok(extended.elems)

Filters ==
    /\ Record("filters", filters(qs))
    /\ UNCHANGED <<qs, config>>

(***************************************************************************)
(* querystring                                                             *)
(***************************************************************************)
\* key.startswith(self.MANAGED_KEYS), a tuple of prefixes
startswith_any(key, prefixes) == \E i \in 1..Len(prefixes) : startswith(key, prefixes[i])

\* Lines 75-76: the comprehension, from entry i.  The second operand of
\* `or` is evaluated for each key that has no managed prefix.
RECURSIVE querystring_from(_, _, _)
querystring_from(q, i, kept) ==
    IF i > Len(q) THEN Ok(kept)
    ELSE IF startswith_any(q[i].key, MANAGED_KEYS) THEN querystring_from(q, i + 1, Append(kept, q[i]))
    ELSE LET simple == get_key_values(q, K_filter_bracket)
         IN  IF IsErr(simple) THEN simple
             ELSE IF simple.ok # <<>> THEN querystring_from(q, i + 1, Append(kept, q[i]))
             ELSE querystring_from(q, i + 1, kept)

querystring(q) == querystring_from(q, 1, <<>>)

Querystring ==
    /\ Record("querystring", querystring(qs))
    /\ UNCHANGED <<qs, config>>

(***************************************************************************)
(* fields                                                                  *)
(***************************************************************************)
\* Lines 148-150: scalars become one-element lists, in the dict
\* _get_key_values built.
normalize_fields(result) ==
    [i \in 1..Len(result) |->
        [k |-> result[i].k,
         v |-> IF IsList(result[i].v) THEN result[i].v ELSE List(<<result[i].v.scalar>>)]]

\* Lines 152-156, from entry i: <<>> or the error raised.
RECURSIVE check_fields(_, _)
check_fields(result, i) ==
    IF i > Len(result) THEN <<>>
    ELSE LET sch == get_schema_from_type(result[i].k)
             value == result[i].v.list
         IN  IF sch = <<>> THEN <<Err("Exception", result[i].k)>>
             ELSE IF \E j \in 1..Len(value) : value[j] \notin declared_fields(sch[1])
                  THEN <<Err("InvalidField", <<>>)>>
             ELSE check_fields(result, i + 1)

fields(q) ==
    LET got == get_key_values(q, K_fields)
    IN  IF IsErr(got) THEN got
        ELSE LET result == normalize_fields(got.ok)
                 bad == check_fields(result, 1)
             IN  IF bad # <<>> THEN bad[1] ELSE Ok(result)

\* Variant: fields consumes the parameters it has read.
Fields_consuming ==
    /\ Record("fields", fields(qs))
    /\ qs' = SelectSeq(qs, LAMBDA e : ~startswith(e.key, K_fields))
    /\ UNCHANGED config

Fields ==
    /\ Record("fields", fields(qs))
    /\ UNCHANGED <<qs, config>>

FilterAlphabet == {"[", "]", ",", "{c1}", "{c2}", "1"}

F_a == K_filter \o Bracket(<<"a">>)
F_b == K_filter \o Bracket(<<"b">>)

InitFilter ==
    /\ \E o \in KeyOrders({K_filter, F_a, F_b}) :
       \E text \in Strs(FilterAlphabet, MaxFilterLen) :
       \E va \in {<<"v">>, <<"v", ",", "w">>} :
          qs = MappingOf(o, (K_filter :> text) @@ (F_a :> va) @@ (F_b :> <<"w">>))
    /\ config = NoConfig
    /\ InitRest

SpecFilter == InitFilter /\ [][Filters]_vars

\* The conditions of a decoded `filter` value: its elements when it is a
\* list of condition objects, nothing otherwise.
DecodedConditions(x) ==
    IF "items" \in DOMAIN x /\ \A i \in 1..Len(x.items) : "dict" \in DOMAIN x.items[i]
    THEN x.items ELSE <<>>

\* One equality condition per filter[k]=v parameter, in mapping order.
RECURSIVE BracketConditions(_)
BracketConditions(q) ==
    IF q = <<>> THEN <<>>
    ELSE IF startswith(Head(q).key, K_filter_bracket)
         THEN <<[name |-> SubSeq(Head(q).key, 8, Len(Head(q).key) - 1), op |-> "eq",
                 val |-> item_value_of(Head(q).value)]>> \o BracketConditions(Tail(q))
         ELSE BracketConditions(Tail(q))

\* C6: filters returns the conditions decoded from the JSON `filter`
\* parameter, in order, followed by one equality condition per filter[k]=v
\* parameter; a `filter` value that is not JSON fails with InvalidFilters,
\* and one that does not decode to a list of conditions contributes nothing.
C6_FiltersConcatenation ==
    last.acc = "filters" =>
        LET decoded == IF has_key(qs, K_filter) THEN json_loads(qs_item(qs, K_filter))
                       ELSE [val |-> [items |-> <<>>]]
        IN  IF "fail" \in DOMAIN decoded THEN last.out = Err("InvalidFilters", <<>>)
            ELSE \/ last.out = Err("InvalidFilters", <<>>)
                 \/ last.out = Ok(DecodedConditions(decoded.val) \o BracketConditions(qs))

(***************************************************************************)
(* Bracket-group extraction and the managed-parameter view on mappings of  *)
(* arbitrary keys.                                                         *)
(***************************************************************************)
Mappings(E, n) ==
    {q \in UNION {[1..k -> E] : k \in 0..n} :
        \A i, j \in 1..Len(q) : i # j => q[i].key # q[j].key}

K_utm_source == <<"u","t","m","_","s","o","u","r","c","e">>

SampleKeys ==
    {P_size,
     <<"p","a","g","e","s">> \o Bracket(K_size),
     K_page,
     <<"p","a","g","e","[","s","i","z","e">>,
     K_fields \o Bracket(<<"u">>),
     F_a,
     K_filter,
     K_sort,
     K_utm_source}

SampleValues == {<<"v">>, <<"v", ",", "w">>}

Prefixes == {K_page, K_fields, K_filter_bracket}

GetKeyValues ==
    \E name \in Prefixes :
        /\ calls < MaxCalls
        /\ calls' = calls + 1
        /\ last' = [acc |-> "_get_key_values", name |-> name, out |-> get_key_values(qs, name)]
        /\ UNCHANGED <<qs, config, first>>

InitKeys ==
    /\ qs \in Mappings([key : SampleKeys, value : SampleValues], MaxParams)
    /\ config = NoConfig
    /\ InitRest

SpecKeys == InitKeys /\ [][GetKeyValues \/ Querystring]_vars

\* C2: the managed-parameter view holds a key exactly when the key is a
\* recognized directive (read as the code reads it: the key starts with one
\* of the directive names, which covers the filter[...] groups).
C2_ManagedKeysOnly ==
    (last.acc = "querystring" /\ IsOk(last.out)) =>
        \A k \in keys_of(qs) : k \in keys_of(last.out.ok) <=> startswith_any(k, MANAGED_KEYS)

\* The sub-key of a bracket-group key: the text between its first '[' and
\* its first ']'.
SubKeyOf(key) == SubSeq(key, index(key, "[") + 1, index(key, "]") - 1)

Bracketed(key) == contains(key, "[") /\ contains(key, "]")

\* What extraction makes of a value: the list of its comma-separated parts,
\* or the value itself when it holds no comma.
Extracted(value) == IF contains(value, ",") THEN List(split(value, ",")) ELSE Scalar(value)

KeyValuesCalled == last.acc = "_get_key_values"

\* Positions of the keys of the mapping that start with the prefix.
Selected == {i \in 1..Len(qs) : startswith(qs[i].key, last.name)}

\* Original statement of C8: every key starting with P is mapped, under its
\* sub-key, to what extraction makes of its own value.
C8_EveryKeyMapped ==
    KeyValuesCalled =>
        /\ (\E i \in Selected : ~Bracketed(qs[i].key)) <=> IsErr(last.out)
        /\ IsErr(last.out) =>
              /\ last.out.err = "BadRequest"
              /\ \E i \in Selected : ~Bracketed(qs[i].key) /\ last.out.source = qs[i].key
        /\ IsOk(last.out) =>
              /\ dict_keys(last.out.ok) = {SubKeyOf(qs[i].key) : i \in Selected}
              /\ \A i \in Selected :
                    dict_get(last.out.ok, SubKeyOf(qs[i].key)) = Extracted(qs[i].value)

\* C8 (amended): extraction ignores the keys that do not start with P; it
\* fails with BadRequest naming the first key, in mapping order, that starts
\* with P and lacks '[' or ']'; otherwise it maps each sub-key to what
\* extraction makes of the value of the last key, in mapping order, that
\* starts with P and has that sub-key.
C8_LastKeyMapped ==
    KeyValuesCalled =>
        /\ (\E i \in Selected : ~Bracketed(qs[i].key)) <=> IsErr(last.out)
        /\ IsErr(last.out) =>
              /\ last.out.err = "BadRequest"
              /\ \E i \in Selected :
                    /\ ~Bracketed(qs[i].key)
                    /\ last.out.source = qs[i].key
                    /\ \A j \in Selected : j < i => Bracketed(qs[j].key)
        /\ IsOk(last.out) =>
              /\ dict_keys(last.out.ok) = {SubKeyOf(qs[i].key) : i \in Selected}
              /\ \A i \in Selected :
                    (\A j \in Selected : j > i => SubKeyOf(qs[j].key) # SubKeyOf(qs[i].key))
                        => dict_get(last.out.ok, SubKeyOf(qs[i].key)) = Extracted(qs[i].value)

C8_Witness ==
    /\ KeyValuesCalled
    /\ IsOk(last.out)
    /\ \E i, j \in Selected :
          /\ i < j
          /\ SubKeyOf(qs[i].key) = SubKeyOf(qs[j].key)
          /\ qs[i].value # qs[j].value
          /\ IsList(dict_get(last.out.ok, SubKeyOf(qs[j].key)))

(***************************************************************************)
(* One parser instance over a mapping that holds several directives at     *)
(* once, its accessors called in any order.                                *)
(***************************************************************************)
StrictConfig == [ALLOW_DISABLE_PAGINATION |-> FALSE, MAX_PAGE_SIZE |-> <<1>>, MAX_INCLUDE_DEPTH |-> <<1>>]

\* An optional parameter: no entry, or one entry with one of the values.
Optional(key, values) == {<<>>} \cup {<<[key |-> key, value |-> v]>> : v \in values}

Init ==
    /\ \E e1 \in Optional(K_sort, {<<"!">>, <<"-", "r", ".", "n">>}) :
       \E e2 \in Optional(P_size, {<<"0">>, <<"1", ",", "2">>}) :
       \E e3 \in Optional(K_include, {<<"a", ".", "b">>}) :
       \E e4 \in Optional(K_filter, {<<"[", "{c1}", "]">>, <<"]">>}) :
       \E e5 \in Optional(F_a, {<<"v">>}) :
       \E e6 \in Optional(K_fields \o Bracket(<<"u">>), {<<"n">>, <<"n", ",", "x">>}) :
       \E e7 \in Optional(K_utm_source, {<<"v">>}) :
          qs = e1 \o e2 \o e3 \o e4 \o e5 \o e6 \o e7
    /\ config \in {NoConfig, StrictConfig}
    /\ InitRest

Next == Querystring \/ Filters \/ Pagination \/ Fields \/ Sorting \/ Include

Spec == Init /\ [][Next]_vars

OwnParams(q, name) == SelectSeq(q, LAMBDA e : startswith(e.key, name))

\* C10: the outcome of a directive's accessor is the one it has on the
\* parameters of its own directive alone, whatever was called before it and
\* whether that failed.
C10_Independent ==
    /\ last.acc = "pagination" => last.out = pagination(OwnParams(qs, K_page), config)
    /\ last.acc = "filters" => last.out = filters(OwnParams(qs, K_filter))
    /\ last.acc = "fields" => last.out = fields(OwnParams(qs, K_fields))
    /\ last.acc = "sorting" => last.out = sorting(OwnParams(qs, K_sort), schema)
    /\ last.acc = "include" => last.out = include(OwnParams(qs, K_include), config)

C10_Witness ==
    /\ first["sorting"] = Err("InvalidSort", <<>>)
    /\ last.acc = "pagination"
    /\ IsOk(last.out)
    /\ last.out.ok # <<>>

====
